---- MODULE Spec2Model ----
(***************************************************************************)
(* AWS Bedrock provider of picoclaw: the conversion of a canonical         *)
(* conversation into a Converse request (messagesToConverseInput) and of   *)
(* a Converse response into an LLMResponse (parseAWSBedrockResponse).      *)
(*                                                                         *)
(* Go strings are TLA+ strings ("" is the empty string, \o concatenates).  *)
(* A map[string]interface{} is a set of <<key, value>> pairs with unique   *)
(* keys; len(m) is its cardinality, and a nil map is the empty set.        *)
(* A JSON text (the legacy argument string, the bytes of a document) is    *)
(* its sequence of lexical tokens; the empty string is <<>>.               *)
(***************************************************************************)
EXTENDS Integers, Sequences, FiniteSets, TLC

VARIABLES
    messages,              \* Chat: the messages argument
    i,                     \* messagesToConverseInput: index of the next message of the range loop
    systemBlocks,          \* messagesToConverseInput: var systemBlocks
    conversationMessages,  \* messagesToConverseInput: var conversationMessages
    input,                 \* the ConverseInput returned by messagesToConverseInput
    response,              \* the ConverseOutput handed to parseAWSBedrockResponse
    j,                     \* parseAWSBedrockResponse: index of the next block of the range loop
    content,               \* parseAWSBedrockResponse: var content strings.Builder
    toolCalls,             \* parseAWSBedrockResponse: var toolCalls
    result,                \* the (*LLMResponse, error) returned by parseAWSBedrockResponse
    pc                     \* position in Chat: "encode", "request", "parse", "done", "error"

vars == <<messages, i, systemBlocks, conversationMessages, input,
          response, j, content, toolCalls, result, pc>>

encodeVars == <<messages, i, systemBlocks, conversationMessages, input>>
parseVars == <<response, j, content, toolCalls, result>>

(***************************************************************************)
(* Bounds of the model.                                                    *)
(***************************************************************************)
MaxMsgs == 3     \* longest message sequence drawn from MsgPool
MaxCalls == 2    \* most tool calls carried by the assistant turn of a tool-call exchange
MaxBlocks == 3   \* most content blocks of a drawn backend response

(***************************************************************************)
(* encoding/json on flat objects with number members.                      *)
(***************************************************************************)
\* The object keys of the model, in the order a marshaller writes them.
Keys == <<"x", "y">>

NumTok(v) == CASE v = 1 -> "1" [] v = 2 -> "2"

TokNum(t) == CASE t = "1" -> 1 [] t = "2" -> 2

IsKeyTok(t) == \E k \in 1..Len(Keys) : Keys[k] = t

IsNumTok(t) == t \in {"1", "2"}

Tail3(s) == SubSeq(s, 4, Len(s))

\* The members k:v,k:v,... of an object, stored into acc member by member
\* (a repeated key keeps its last value).
RECURSIVE ParseMembers(_, _)
ParseMembers(toks, acc) ==
    IF Len(toks) < 3 \/ ~IsKeyTok(toks[1]) \/ toks[2] # ":" \/ ~IsNumTok(toks[3])
    THEN [err |-> TRUE, val |-> acc]
    ELSE LET put == {p \in acc : p[1] # toks[1]} \cup {<<toks[1], TokNum(toks[3])>>}
             rest == Tail3(toks)
         IN  IF rest = <<>> THEN [err |-> FALSE, val |-> put]
             ELSE IF rest[1] # ","
                  THEN [err |-> TRUE, val |-> acc]
                  ELSE ParseMembers(Tail(rest), put)

\* json.Unmarshal(text, &into) for into of type map[string]interface{}:
\* the text is validated as a whole before anything is stored, null sets the
\* map to nil, an object stores its members into the map, and any other JSON
\* value is a type error that leaves the map alone.
JsonUnmarshal(text, into) ==
    IF text = <<"null">> THEN [err |-> FALSE, val |-> {}]
    ELSE IF Len(text) >= 2 /\ text[1] = "{" /\ text[Len(text)] = "}"
         THEN IF Len(text) = 2
              THEN [err |-> FALSE, val |-> into]
              ELSE LET r == ParseMembers(SubSeq(text, 2, Len(text) - 1), into)
                   IN  [err |-> r.err, val |-> IF r.err THEN into ELSE r.val]
         ELSE [err |-> TRUE, val |-> into]

RECURSIVE MarshalMembers(_, _, _)
MarshalMembers(m, k, first) ==
    IF k > Len(Keys) THEN <<>>
    ELSE LET here == {p \in m : p[1] = Keys[k]}
         IN  IF here = {} THEN MarshalMembers(m, k + 1, first)
             ELSE LET p == CHOOSE q \in here : TRUE
                  IN  (IF first THEN <<>> ELSE <<",">>)
                      \o <<p[1], ":", NumTok(p[2])>>
                      \o MarshalMembers(m, k + 1, FALSE)

\* The JSON text of a map: an object with the map's members in key order.
JsonMarshal(m) == <<"{">> \o MarshalMembers(m, 1, TRUE) \o <<"}">>

(***************************************************************************)
(* document.Interface of the Bedrock runtime SDK.                          *)
(*   kind "nil"   the nil interface                                        *)
(*   kind "lazy"  document.NewLazyDocument(value)                          *)
(*   kind "wire"  a document received from the backend, holding bytes      *)
(*   kind "bad"   a document whose MarshalSmithyDocument returns an error  *)
(***************************************************************************)
NilDocument == [kind |-> "nil", value |-> {}, bytes |-> <<>>]

NewLazyDocument(v) == [kind |-> "lazy", value |-> v, bytes |-> <<>>]

WireDocument(b) == [kind |-> "wire", value |-> {}, bytes |-> b]

BadDocument == [kind |-> "bad", value |-> {}, bytes |-> <<>>]

MarshalSmithyDocument(d) ==
    CASE d.kind = "lazy" -> [err |-> FALSE, bytes |-> JsonMarshal(d.value)]
      [] d.kind = "wire" -> [err |-> FALSE, bytes |-> d.bytes]
      [] OTHER -> [err |-> TRUE, bytes |-> <<>>]

(***************************************************************************)
(* types.ContentBlock: Text, ToolUse and ToolResult members.               *)
(***************************************************************************)
Text(v) ==
    [type |-> "text", Value |-> v, ToolUseId |-> "", Name |-> "", Input |-> NilDocument]

ToolUse(id, name, in) ==
    [type |-> "toolUse", Value |-> "", ToolUseId |-> id, Name |-> name, Input |-> in]

\* Value is the text of the single ToolResultContentBlockMemberText.
ToolResult(id, text) ==
    [type |-> "toolResult", Value |-> text, ToolUseId |-> id, Name |-> "", Input |-> NilDocument]

(***************************************************************************)
(* Message, ToolCall and FunctionCall of the providers package.            *)
(***************************************************************************)
NilFunction == [isNil |-> TRUE, Name |-> "", Arguments |-> <<>>]

FunctionCall(name, args) == [isNil |-> FALSE, Name |-> name, Arguments |-> args]

ToolCall(id, name, args, fn) ==
    [ID |-> id, Name |-> name, Arguments |-> args, Function |-> fn]

Message(role, text, toolCallID, calls) ==
    [Role |-> role, Content |-> text, ToolCallID |-> toolCallID, ToolCalls |-> calls]

(***************************************************************************)
(* messagesToConverseInput: the body of the range loop, case by case.      *)
(***************************************************************************)
\* name := tc.Name, or the legacy function name when it is empty.
ToolUseName(tc) ==
    IF tc.Name = "" /\ ~tc.Function.isNil THEN tc.Function.Name ELSE tc.Name

\* Mutant of ToolUseArgs: the legacy argument string is parsed whether or
\* not the arguments are empty.
ToolUseArgsLegacyFirst(tc) ==
    IF ~tc.Function.isNil /\ tc.Function.Arguments # <<>>
    THEN LET parsed == JsonUnmarshal(tc.Function.Arguments, {})
         IN  IF ~parsed.err THEN parsed.val ELSE tc.Arguments
    ELSE tc.Arguments

\* args := tc.Arguments, or the parsed legacy argument string when the
\* arguments are empty and the string parses.
ToolUseArgs(tc) ==
    IF Cardinality(tc.Arguments) = 0 /\ ~tc.Function.isNil /\ tc.Function.Arguments # <<>>
    THEN LET parsed == JsonUnmarshal(tc.Function.Arguments, {})
         IN  IF ~parsed.err THEN parsed.val ELSE tc.Arguments
    ELSE tc.Arguments

ToolUseOf(tc) == ToolUse(tc.ID, ToolUseName(tc), NewLazyDocument(ToolUseArgs(tc)))

ToolUseBlocks(calls) == [k \in 1..Len(calls) |-> ToolUseOf(calls[k])]

UserBlocks(msg) ==
    IF msg.ToolCallID # ""
    THEN <<ToolResult(msg.ToolCallID, msg.Content)>>
    ELSE <<Text(msg.Content)>>

AssistantBlocks(msg) ==
    IF Len(msg.ToolCalls) > 0
    THEN (IF msg.Content # "" THEN <<Text(msg.Content)>> ELSE <<>>)
         \o ToolUseBlocks(msg.ToolCalls)
    ELSE <<Text(msg.Content)>>

ToolBlocks(msg) == <<ToolResult(msg.ToolCallID, msg.Content)>>

\* The roles the switch has a case for.
SwitchRoles == {"user", "assistant", "tool"}

\* Mutant of BedrockRole: the tool case sets the assistant role.
BedrockRoleToolAsAssistant(role) ==
    CASE role = "user" -> "user"
      [] role = "assistant" -> "assistant"
      [] role = "tool" -> "assistant"

\* bedrockRole as the switch sets it.
BedrockRole(role) ==
    CASE role = "user" -> "user"
      [] role = "assistant" -> "assistant"
      [] role = "tool" -> "user"

\* contentBlocks as the switch builds them.
ContentBlocks(msg) ==
    CASE msg.Role = "user" -> UserBlocks(msg)
      [] msg.Role = "assistant" -> AssistantBlocks(msg)
      [] msg.Role = "tool" -> ToolBlocks(msg)

\* Mutant of AppendTurn: every message starts a backend message of its own.
AppendTurnNoMerge(conv, role, blocks) ==
    Append(conv, [Role |-> role, Content |-> blocks])

\* The end of the loop body: the blocks join the last backend message when
\* it has the same role, and start a new backend message otherwise.
AppendTurn(conv, role, blocks) ==
    IF Len(conv) > 0 /\ conv[Len(conv)].Role = role
    THEN [conv EXCEPT ![Len(conv)].Content = @ \o blocks]
    ELSE Append(conv, [Role |-> role, Content |-> blocks])

\* Mutant of LoopBody: the system case lacks its continue and the message is
\* also handled as a user text.
LoopBodySystemAsUser(sys, conv, msg) ==
    IF msg.Role = "system"
    THEN [sys |-> Append(sys, msg.Content),
          conv |-> AppendTurn(conv, "user", <<Text(msg.Content)>>)]
    ELSE IF msg.Role \in SwitchRoles
         THEN [sys |-> sys,
               conv |-> AppendTurn(conv, BedrockRole(msg.Role), ContentBlocks(msg))]
         ELSE [sys |-> sys, conv |-> conv]

\* Mutant of LoopBody: the default case lacks its continue, so a message of
\* an unknown role reaches the end of the loop body with the zero role and
\* no blocks.
LoopBodyDefaultFallsThrough(sys, conv, msg) ==
    IF msg.Role = "system"
    THEN [sys |-> Append(sys, msg.Content), conv |-> conv]
    ELSE IF msg.Role \in SwitchRoles
         THEN [sys |-> sys,
               conv |-> AppendTurn(conv, BedrockRole(msg.Role), ContentBlocks(msg))]
         ELSE [sys |-> sys, conv |-> AppendTurn(conv, "", <<>>)]

\* One iteration of the loop on msg: the new systemBlocks and
\* conversationMessages.
LoopBody(sys, conv, msg) ==
    IF msg.Role = "system"
    THEN [sys |-> Append(sys, msg.Content), conv |-> conv]
    ELSE IF msg.Role \in SwitchRoles
         THEN [sys |-> sys,
               conv |-> AppendTurn(conv, BedrockRole(msg.Role), ContentBlocks(msg))]
         ELSE [sys |-> sys, conv |-> conv]

\* The whole range loop on msgs, from the state (sys, conv).
RECURSIVE RunLoop(_, _, _)
RunLoop(sys, conv, msgs) ==
    IF msgs = <<>> THEN [sys |-> sys, conv |-> conv]
    ELSE LET next == LoopBody(sys, conv, Head(msgs))
         IN  RunLoop(next.sys, next.conv, Tail(msgs))

\* The range loop stands at a message with one of these roles.
AtMessage(roles) ==
    /\ pc = "encode"
    /\ i <= Len(messages)
    /\ messages[i].Role \in roles

Iterate ==
    /\ LET next == LoopBody(systemBlocks, conversationMessages, messages[i])
       IN  /\ systemBlocks' = next.sys
           /\ conversationMessages' = next.conv
    /\ i' = i + 1
    /\ UNCHANGED <<messages, input, parseVars, pc>>

EncodeSystem ==
    /\ AtMessage({"system"})
    /\ Iterate

EncodeUser ==
    /\ AtMessage({"user"})
    /\ Iterate

EncodeAssistant ==
    /\ AtMessage({"assistant"})
    /\ Iterate

EncodeTool ==
    /\ AtMessage({"tool"})
    /\ Iterate

\* default: a role the switch has no case for.
EncodeOther ==
    /\ pc = "encode"
    /\ i <= Len(messages)
    /\ messages[i].Role \notin SwitchRoles \cup {"system"}
    /\ Iterate

(***************************************************************************)
(* messagesToConverseInput: after the loop.                                *)
(***************************************************************************)
ToolDefinition(name, description, parameters) ==
    [Name |-> name, Description |-> description, Parameters |-> parameters]

NilToolConfig == [isNil |-> TRUE, Tools |-> <<>>]

ToolSpec(tool) ==
    [Name |-> tool.Name, Description |-> tool.Description,
     InputSchema |-> NewLazyDocument(tool.Parameters)]

ToolConfigOf(tools) ==
    IF Len(tools) > 0
    THEN [isNil |-> FALSE, Tools |-> [k \in 1..Len(tools) |-> ToolSpec(tools[k])]]
    ELSE NilToolConfig

\* The tools arguments of the model.
ToolLists ==
    {<<>>,
     <<ToolDefinition("lookup", "look a key up", {<<"x", 1>>})>>,
     <<ToolDefinition("lookup", "look a key up", {<<"x", 1>>}),
       ToolDefinition("search", "", {})>>}

NoInput == [Messages |-> <<>>, System |-> <<>>, ToolConfig |-> NilToolConfig]

\* System stays nil, the empty list here, unless systemBlocks has an entry.
BuildInput ==
    /\ pc = "encode"
    /\ i > Len(messages)
    /\ \E tools \in ToolLists :
          input' = [Messages |-> conversationMessages,
                    System |-> IF Len(systemBlocks) > 0 THEN systemBlocks ELSE <<>>,
                    ToolConfig |-> ToolConfigOf(tools)]
    /\ pc' = "request"
    /\ UNCHANGED <<messages, i, systemBlocks, conversationMessages, parseVars>>

(***************************************************************************)
(* parseAWSBedrockResponse.                                                *)
(***************************************************************************)
NilUsage == [isNil |-> TRUE, PromptTokens |-> 0, CompletionTokens |-> 0, TotalTokens |-> 0]

TokenUsage(in, out, total) ==
    [isNil |-> FALSE, PromptTokens |-> in, CompletionTokens |-> out, TotalTokens |-> total]

NoResponse == [isMessage |-> FALSE, Content |-> <<>>, StopReason |-> "", Usage |-> NilUsage]

NoResult ==
    [err |-> "", Content |-> "", ToolCalls |-> <<>>, FinishReason |-> "", Usage |-> NilUsage]

\* Mutant of WriteText: the newline is written before every text.
WriteTextAlways(builder, value) == builder \o "\n" \o value

\* case *types.ContentBlockMemberText: a newline goes first when the
\* builder already holds text.
WriteText(builder, value) ==
    (IF Len(builder) > 0 THEN builder \o "\n" ELSE builder) \o value

\* args of a ToolUse block: an empty map, filled from the marshalled input
\* document; the error of json.Unmarshal is dropped.
DecodeArgs(in) ==
    IF in.kind # "nil"
    THEN LET inputBytes == MarshalSmithyDocument(in)
         IN  IF ~inputBytes.err THEN JsonUnmarshal(inputBytes.bytes, {}).val ELSE {}
    ELSE {}

\* Mutant of ToolCallOf: the input document is never decoded.
ToolCallOfNoArgs(block) ==
    ToolCall(block.ToolUseId, block.Name, {}, NilFunction)

\* case *types.ContentBlockMemberToolUse.
ToolCallOf(block) ==
    ToolCall(block.ToolUseId, block.Name, DecodeArgs(block.Input), NilFunction)

\* Mutant of FinishReasonOf: a stop reason without a case is passed through.
FinishReasonOfPassThrough(stopReason) ==
    CASE stopReason = "tool_use" -> "tool_calls"
      [] stopReason = "max_tokens" -> "length"
      [] stopReason = "end_turn" -> "stop"
      [] OTHER -> stopReason

\* finishReason: "stop" unless the switch on a non-empty StopReason resets it.
FinishReasonOf(stopReason) ==
    IF stopReason # ""
    THEN CASE stopReason = "tool_use" -> "tool_calls"
           [] stopReason = "max_tokens" -> "length"
           [] stopReason = "end_turn" -> "stop"
           [] OTHER -> "stop"
    ELSE "stop"

\* The type assertion on response.Output fails.
ParseReject ==
    /\ pc = "parse"
    /\ ~response.isMessage
    /\ result' = [NoResult EXCEPT !.err = "unexpected output type"]
    /\ pc' = "error"
    /\ UNCHANGED <<encodeVars, response, j, content, toolCalls>>

ParseBlock(type) ==
    /\ pc = "parse"
    /\ response.isMessage
    /\ j <= Len(response.Content)
    /\ response.Content[j].type = type
    /\ j' = j + 1
    /\ UNCHANGED <<encodeVars, response, result, pc>>

ParseText ==
    /\ ParseBlock("text")
    /\ content' = WriteText(content, response.Content[j].Value)
    /\ UNCHANGED toolCalls

\* Mutant of ParseToolUse: an input document that fails to decode makes the
\* function return the error.
ParseToolUseStrict ==
    /\ pc = "parse"
    /\ response.isMessage
    /\ j <= Len(response.Content)
    /\ response.Content[j].type = "toolUse"
    /\ LET in == response.Content[j].Input
           inputBytes == MarshalSmithyDocument(in)
           failed == in.kind # "nil" /\ (inputBytes.err \/ JsonUnmarshal(inputBytes.bytes, {}).err)
       IN  IF failed
           THEN /\ result' = [NoResult EXCEPT !.err = "invalid tool input"]
                /\ pc' = "error"
                /\ UNCHANGED <<j, toolCalls>>
           ELSE /\ toolCalls' = Append(toolCalls, ToolCallOf(response.Content[j]))
                /\ j' = j + 1
                /\ UNCHANGED <<result, pc>>
    /\ UNCHANGED <<encodeVars, response, content>>

ParseToolUse ==
    /\ ParseBlock("toolUse")
    /\ toolCalls' = Append(toolCalls, ToolCallOf(response.Content[j]))
    /\ UNCHANGED content

\* A block of any other member type matches no case of the type switch.
ParseOther ==
    /\ ParseBlock("toolResult")
    /\ UNCHANGED <<content, toolCalls>>

ParseFinish ==
    /\ pc = "parse"
    /\ response.isMessage
    /\ j > Len(response.Content)
    /\ result' = [err |-> "",
                  Content |-> content,
                  ToolCalls |-> toolCalls,
                  FinishReason |-> FinishReasonOf(response.StopReason),
                  Usage |-> response.Usage]
    /\ pc' = "done"
    /\ UNCHANGED <<encodeVars, response, j, content, toolCalls>>

(***************************************************************************)
(* Chat: the request goes to the backend and the response is parsed.       *)
(***************************************************************************)
\* BedrockRuntimeClient.Converse returns an error.
ConverseError ==
    /\ pc = "request"
    /\ result' = [NoResult EXCEPT !.err = "converse failed"]
    /\ pc' = "error"
    /\ UNCHANGED <<encodeVars, response, j, content, toolCalls>>

\* The backend answers with the blocks of the last backend message of the
\* request: the tool uses the assistant turn carried come back unchanged.
ConverseEcho ==
    /\ pc = "request"
    /\ Len(input.Messages) > 0
    /\ response' = [isMessage |-> TRUE,
                    Content |-> input.Messages[Len(input.Messages)].Content,
                    StopReason |-> "tool_use",
                    Usage |-> NilUsage]
    /\ pc' = "parse"
    /\ UNCHANGED <<encodeVars, j, content, toolCalls, result>>

(***************************************************************************)
(* The inputs of the model.                                                *)
(***************************************************************************)
SeqsUpTo(S, n) == UNION {[1..k -> S] : k \in 0..n}

ObjX1 == <<"{", "x", ":", "1", "}">>
ObjX2Y2 == <<"{", "x", ":", "2", ",", "y", ":", "2", "}">>
BrokenJson == <<"{", "x", ":">>
ArrayJson == <<"[", "1", "]">>

\* Tool calls: plain ones, ones in the legacy function form, and ones that
\* carry both forms.
CallPool ==
    {ToolCall("t1", "lookup", {<<"x", 1>>}, NilFunction),
     ToolCall("t2", "", {}, FunctionCall("search", ObjX1)),
     ToolCall("t3", "lookup", {}, FunctionCall("lookup", BrokenJson)),
     ToolCall("t4", "lookup", {<<"y", 2>>}, FunctionCall("other", ObjX2Y2)),
     ToolCall("t5", "lookup", {}, FunctionCall("", ArrayJson)),
     ToolCall("t6", "lookup", {}, FunctionCall("lookup", <<"null">>)),
     ToolCall("t7", "search", {}, NilFunction),
     ToolCall("t8", "", {<<"x", 1>>, <<"y", 2>>}, FunctionCall("", <<>>)),
     ToolCall("", "", {}, NilFunction),
     ToolCall("", "lookup", {}, FunctionCall("lookup", ObjX2Y2))}

MsgPool ==
    {Message("system", "sys 1", "", <<>>),
     Message("system", "sys 2", "", <<>>),
     Message("user", "hello", "", <<>>),
     Message("user", "", "", <<>>),
     Message("user", "result", "call_u", <<>>),
     Message("assistant", "hi", "", <<>>),
     Message("assistant", "", "", <<>>),
     Message("assistant", "calling",
             "", <<ToolCall("t1", "lookup", {<<"x", 1>>}, NilFunction),
                   ToolCall("t2", "", {}, FunctionCall("search", ObjX1))>>),
     Message("assistant", "", "", <<ToolCall("t3", "lookup", {}, FunctionCall("lookup", BrokenJson))>>),
     Message("tool", "res 1", "call_a", <<>>),
     Message("tool", "res 2", "call_b", <<>>),
     Message("function", "legacy", "", <<>>),
     Message("", "no role", "", <<>>)}

\* The "complex sequence with merging" of TestMessagesToConverseInput.
ComplexTest ==
    <<Message("system", "Sys 1", "", <<>>), Message("system", "Sys 2", "", <<>>),
      Message("user", "User 1", "", <<>>), Message("assistant", "Assist 1", "", <<>>),
      Message("assistant", "Assist 2", "", <<>>), Message("user", "User 2", "", <<>>),
      Message("tool", "Res 1", "call_a", <<>>), Message("tool", "Res 2", "call_b", <<>>)>>

\* The message lists of TestMessagesToConverseInput.
TestInputs ==
    {<<Message("system", "System prompt", "", <<>>), Message("user", "Hello", "", <<>>)>>,
     <<Message("user", "Hello", "", <<>>), Message("assistant", "Hi there", "", <<>>),
       Message("user", "How are you?", "", <<>>)>>,
     <<Message("user", "Message 1", "", <<>>), Message("user", "Message 2", "", <<>>)>>,
     <<Message("user", "Run tool", "", <<>>), Message("tool", "Result", "call_1", <<>>)>>,
     ComplexTest}

BlockPool ==
    {Text("a"),
     Text("b"),
     Text(""),
     ToolUse("t1", "lookup", NewLazyDocument({<<"x", 1>>})),
     ToolUse("t2", "search", WireDocument(ObjX2Y2)),
     ToolUse("t3", "lookup", WireDocument(ArrayJson)),
     ToolUse("t4", "search", BadDocument),
     ToolUse("t5", "lookup", NilDocument),
     ToolResult("t1", "r")}

StopReasons == {"", "end_turn", "tool_use", "max_tokens", "content_filtered", "paused"}

Responses ==
    [isMessage : {TRUE},
     Content : SeqsUpTo(BlockPool, MaxBlocks),
     StopReason : StopReasons,
     Usage : {NilUsage, TokenUsage(0, 0, 0)}]
    \cup
    [isMessage : {FALSE}, Content : {<<>>}, StopReason : StopReasons, Usage : {NilUsage}]

EncodeStart ==
    /\ i = 1
    /\ systemBlocks = <<>>
    /\ conversationMessages = <<>>
    /\ input = NoInput

ParseStart ==
    /\ j = 1
    /\ content = ""
    /\ toolCalls = <<>>
    /\ result = NoResult

(***************************************************************************)
(* Spec: messagesToConverseInput on a message list.                        *)
(***************************************************************************)
Init ==
    /\ messages \in SeqsUpTo(MsgPool, MaxMsgs) \cup TestInputs
    /\ EncodeStart
    /\ response = NoResponse
    /\ ParseStart
    /\ pc = "encode"

Next ==
    \/ EncodeSystem
    \/ EncodeUser
    \/ EncodeAssistant
    \/ EncodeTool
    \/ EncodeOther
    \/ BuildInput

Spec == Init /\ [][Next]_vars

(***************************************************************************)
(* SpecParse: parseAWSBedrockResponse on a backend response.               *)
(***************************************************************************)
InitParse ==
    /\ messages = <<>>
    /\ EncodeStart
    /\ response \in Responses
    /\ ParseStart
    /\ pc = "parse"

NextParse ==
    \/ ParseReject
    \/ ParseText
    \/ ParseToolUse
    \/ ParseOther
    \/ ParseFinish

SpecParse == InitParse /\ [][NextParse]_vars

(***************************************************************************)
(* SpecChat: Chat on one assistant turn that carries tool calls, answered  *)
(* by the backend with the same tool uses.                                 *)
(***************************************************************************)
InitChat ==
    /\ \E calls \in SeqsUpTo(CallPool, MaxCalls), text \in {"", "calling"} :
          /\ Len(calls) > 0
          /\ messages = <<Message("assistant", text, "", calls)>>
    /\ EncodeStart
    /\ response = NoResponse
    /\ ParseStart
    /\ pc = "encode"

NextChat ==
    \/ EncodeAssistant
    \/ BuildInput
    \/ ConverseError
    \/ ConverseEcho
    \/ ParseText
    \/ ParseToolUse
    \/ ParseFinish

SpecChat == InitChat /\ [][NextChat]_vars

(***************************************************************************)
(* Properties of messagesToConverseInput.                                  *)
(***************************************************************************)
\* The messages the loop has gone through.
Processed == SubSeq(messages, 1, i - 1)

IsSystem(m) == m.Role = "system"

IsTurn(m) == m.Role \in {"user", "assistant", "tool"}

\* The role table of the specification: user->user, assistant->assistant,
\* tool->user.
RoleTable(role) == IF role = "assistant" THEN "assistant" ELSE "user"

RECURSIVE Flatten(_)
Flatten(ss) == IF ss = <<>> THEN <<>> ELSE Head(ss) \o Flatten(Tail(ss))

BlocksOfTurns(turns) == Flatten([t \in 1..Len(turns) |-> turns[t].Content])

BlocksOfMessages(msgs) == Flatten([k \in 1..Len(msgs) |-> ContentBlocks(msgs[k])])

\* The backend turn that the k-th turn message of vis belongs to: one more
\* than the number of role changes before it.
TurnOf(vis, k) ==
    1 + Cardinality({n \in 1..(k - 1) : RoleTable(vis[n].Role) # RoleTable(vis[n + 1].Role)})

\* The turn messages of vis that belong to backend turn t, in order.
MembersOf(vis, t) ==
    LET idx == {k \in 1..Len(vis) : TurnOf(vis, k) = t}
        first == CHOOSE k \in idx : \A n \in idx : k <= n
    IN  [k \in 1..Cardinality(idx) |-> vis[first + k - 1]]

\* C1: adjacent turns of one backend role are coalesced: no two adjacent
\* backend turns share a role, there is one backend turn per run of turn
\* messages of one backend role, each backend turn holds the blocks of the
\* messages of its run, whole and in input order, and the blocks of all
\* backend turns read left to right are the blocks of the turn messages in
\* input order.
C1_Coalesced ==
    LET vis == SelectSeq(Processed, IsTurn)
        turns == conversationMessages
    IN  /\ \A t \in 1..(Len(turns) - 1) : turns[t].Role # turns[t + 1].Role
        /\ Len(turns) = IF vis = <<>> THEN 0 ELSE TurnOf(vis, Len(vis))
        /\ \A t \in 1..Len(turns) :
              /\ turns[t].Role = RoleTable(MembersOf(vis, t)[1].Role)
              /\ turns[t].Content = BlocksOfMessages(MembersOf(vis, t))
        /\ BlocksOfTurns(turns) = BlocksOfMessages(vis)

\* The complex merge scenario of the tests: preamble of 2 and the 3 backend
\* turns user, assistant, user.
C1_Witness ==
    /\ pc = "request"
    /\ messages = ComplexTest
    /\ Len(input.System) = 2
    /\ Len(input.Messages) = 3
    /\ [t \in 1..3 |-> input.Messages[t].Role] = <<"user", "assistant", "user">>
    /\ input.Messages[3].Content =
          <<Text("User 2"), ToolResult("call_a", "Res 1"), ToolResult("call_b", "Res 2")>>

SystemTexts(msgs) ==
    LET sysMsgs == SelectSeq(msgs, IsSystem)
    IN  [k \in 1..Len(sysMsgs) |-> sysMsgs[k].Content]

NotSystem(m) == ~IsSystem(m)

\* C2: the preamble is the texts of the system turns in input order (empty
\* without a system turn), and the backend turns are those of the input with
\* its system turns removed: a system turn adds no block and no turn.
C2_SystemApart ==
    /\ systemBlocks = SystemTexts(Processed)
    /\ Len(systemBlocks) = Cardinality({k \in 1..(i - 1) : IsSystem(messages[k])})
    /\ conversationMessages = RunLoop(<<>>, <<>>, SelectSeq(Processed, NotSystem)).conv
    /\ Len(BlocksOfTurns(conversationMessages)) =
          Len(BlocksOfMessages(SelectSeq(Processed, IsTurn)))
    /\ pc = "request" =>
          /\ input.System = SystemTexts(messages)
          /\ input.Messages = conversationMessages

\* Two system turns around a user turn: both texts in the preamble, in
\* order, and one backend turn.
C2_Witness ==
    /\ pc = "request"
    /\ Len(messages) = 3
    /\ messages[1].Role = "system" /\ messages[1].Content = "sys 2"
    /\ messages[2].Role = "user"
    /\ messages[3].Role = "system" /\ messages[3].Content = "sys 1"
    /\ input.System = <<"sys 2", "sys 1">>
    /\ Len(input.Messages) = 1
    /\ Len(input.Messages[1].Content) = 1

\* C3: the step on a tool turn yields one ToolResult block with the turn's
\* toolCallId and text, under backend role user: appended to the last
\* backend turn when that turn is a user turn, and a new user turn otherwise.
C3_ToolResult ==
    [][(pc = "encode" /\ i <= Len(messages) /\ messages[i].Role = "tool") =>
          LET block == ToolResult(messages[i].ToolCallID, messages[i].Content)
              n == Len(conversationMessages)
          IN  /\ block.type = "toolResult"
              /\ IF n > 0 /\ conversationMessages[n].Role = "user"
                 THEN conversationMessages' =
                         [conversationMessages EXCEPT ![n].Content = Append(@, block)]
                 ELSE conversationMessages' =
                         Append(conversationMessages, [Role |-> "user", Content |-> <<block>>])
              /\ systemBlocks' = systemBlocks]_vars

\* The tool-result merge of the tests: one user turn with the text and the
\* tool result.
C3_Witness ==
    /\ pc = "request"
    /\ messages = <<Message("user", "Run tool", "", <<>>), Message("tool", "Result", "call_1", <<>>)>>
    /\ input.Messages =
          <<[Role |-> "user", Content |-> <<Text("Run tool"), ToolResult("call_1", "Result")>>]>>

\* C9: the step on a system turn or on a turn of an unknown role leaves the
\* backend turns, and so the last backend role, alone, and a turn of an
\* unknown role leaves the preamble alone too; the step on a turn message
\* whose backend role is that of the last turn message before it, whatever
\* system or unknown turns lie between them, adds its blocks to the last
\* backend turn and starts no new one.
C9_InvisibleTurns ==
    [][(pc = "encode" /\ i <= Len(messages)) =>
          LET m == messages[i]
              vis == SelectSeq(Processed, IsTurn)
              n == Len(conversationMessages)
          IN  IF ~IsTurn(m)
              THEN /\ conversationMessages' = conversationMessages
                   /\ ~IsSystem(m) => systemBlocks' = systemBlocks
              ELSE (vis # <<>> /\ RoleTable(vis[Len(vis)].Role) = RoleTable(m.Role)) =>
                      /\ n > 0
                      /\ Len(conversationMessages') = n
                      /\ conversationMessages'[n].Content =
                            conversationMessages[n].Content \o ContentBlocks(m)]_vars

\* A user turn and a tool turn with a turn of an unknown role between them:
\* one backend turn of two blocks, and an empty preamble.
C9_Witness ==
    /\ pc = "request"
    /\ Len(messages) = 3
    /\ messages[1].Role = "user"
    /\ messages[2].Role = "function"
    /\ messages[3].Role = "tool"
    /\ input.System = <<>>
    /\ Len(input.Messages) = 1
    /\ Len(input.Messages[1].Content) = 2

(***************************************************************************)
(* Properties of the tool-call encoding.                                   *)
(***************************************************************************)
IsToolUse(b) == b.type = "toolUse"

IsText(b) == b.type = "text"

\* What the JSON texts of the model say: the object, when the text is one.
ObjectOf(text) ==
    CASE text = ObjX1 -> {<<"x", 1>>}
      [] text = ObjX2Y2 -> {<<"x", 2>>, <<"y", 2>>}
      [] OTHER -> {}

\* C4: every ToolUse block of the backend turns carries a non-empty id and a
\* non-empty name.
C4_ToolUseNamed ==
    \A t \in 1..Len(conversationMessages) :
       \A k \in 1..Len(conversationMessages[t].Content) :
          LET b == conversationMessages[t].Content[k]
          IN  IsToolUse(b) => b.ToolUseId # "" /\ b.Name # ""

\* The blocks of the assistant turn of the exchange once it is encoded, and
\* the offset of its first ToolUse block.
Calls == messages[1].ToolCalls

Encoded == conversationMessages[1].Content

TextOffset == IF messages[1].Content # "" THEN 1 ELSE 0

\* C5: each tool call of the encoded assistant turn has its ToolUse block,
\* in order, and the block's input is the call's arguments when they are not
\* empty; the object of the legacy string when the arguments are empty and
\* the string is present and parses; and empty otherwise.
C5_LegacyArguments ==
    (i > 1) =>
       /\ Len(conversationMessages) = 1
       /\ Len(Encoded) = TextOffset + Len(Calls)
       /\ \A k \in 1..Len(Calls) :
             LET tc == Calls[k]
                 b == Encoded[TextOffset + k]
             IN  /\ IsToolUse(b)
                 /\ b.ToolUseId = tc.ID
                 /\ b.Input.kind = "lazy"
                 /\ b.Input.value =
                       IF tc.Arguments # {} THEN tc.Arguments
                       ELSE IF tc.Function.isNil \/ tc.Function.Arguments = <<>> THEN {}
                       ELSE ObjectOf(tc.Function.Arguments)

\* A call whose legacy string parses next to one whose legacy string is
\* broken: the first gets the parsed object, the second an empty input and
\* its block all the same.
C5_Witness ==
    /\ pc = "request"
    /\ Len(Calls) = 2
    /\ Calls[1].Arguments = {} /\ Calls[1].Function.Arguments = ObjX1
    /\ Calls[2].Arguments = {} /\ Calls[2].Function.Arguments = BrokenJson
    /\ messages[1].Content = ""
    /\ Len(input.Messages[1].Content) = 2
    /\ input.Messages[1].Content[1].Input = NewLazyDocument({<<"x", 1>>})
    /\ input.Messages[1].Content[2].Input = NewLazyDocument({})

\* C8: when the response carries, for a tool call of the encoded assistant
\* turn, a ToolUse block with the call's id, name and arguments, the decoded
\* ToolCalls has one entry per tool call and the entry of that call equals
\* it by id, name and arguments.
C8_RoundTrip ==
    (pc = "done") =>
       LET uses == SelectSeq(response.Content, IsToolUse)
       IN  /\ Len(uses) = Len(Calls)
           /\ Len(result.ToolCalls) = Len(Calls)
           /\ \A k \in 1..Len(Calls) :
                 (/\ uses[k].ToolUseId = Calls[k].ID
                  /\ uses[k].Name = Calls[k].Name
                  /\ uses[k].Input = NewLazyDocument(Calls[k].Arguments))
                 => /\ result.ToolCalls[k].ID = Calls[k].ID
                    /\ result.ToolCalls[k].Name = Calls[k].Name
                    /\ result.ToolCalls[k].Arguments = Calls[k].Arguments

\* The round trip of the specification: (t1, lookup, {"x":1}).
C8_Witness ==
    /\ pc = "done"
    /\ Calls = <<ToolCall("t1", "lookup", {<<"x", 1>>}, NilFunction)>>
    /\ response.Content[Len(response.Content)] =
          ToolUse("t1", "lookup", NewLazyDocument({<<"x", 1>>}))
    /\ result.ToolCalls = <<ToolCall("t1", "lookup", {<<"x", 1>>}, NilFunction)>>

(***************************************************************************)
(* Properties of parseAWSBedrockResponse.                                  *)
(***************************************************************************)
\* The blocks the loop has gone through.
Parsed == SubSeq(response.Content, 1, j - 1)

TextsOf(blocks) ==
    LET ts == SelectSeq(blocks, IsText)
    IN  [k \in 1..Len(ts) |-> ts[k].Value]

RECURSIVE Join(_)
Join(ts) ==
    IF ts = <<>> THEN ""
    ELSE IF Len(ts) = 1 THEN ts[1]
         ELSE ts[1] \o "\n" \o Join(Tail(ts))

RECURSIVE DropLeadingEmpty(_)
DropLeadingEmpty(ts) ==
    IF ts # <<>> /\ ts[1] = "" THEN DropLeadingEmpty(Tail(ts)) ELSE ts

\* What the input documents of the model say: the object, when the document
\* holds one.
ArgumentsOf(in) ==
    CASE in.kind = "lazy" -> in.value
      [] in.kind = "wire" -> ObjectOf(in.bytes)
      [] OTHER -> {}

\* The input document holds no object: its decoding fails.
DecodeFails(in) ==
    \/ in.kind = "bad"
    \/ in.kind = "wire" /\ in.bytes \notin {ObjX1, ObjX2Y2}

\* C6: a response with a message returns no error; the tool calls decoded so
\* far are the ToolUse blocks gone through, one each and in order, with the
\* block's id and name; a block whose input document fails to decode gives
\* empty arguments, every other block the arguments its document holds; and
\* the text decoded so far depends on the Text blocks alone.
C6_DecodeFailureLocal ==
    response.isMessage =>
       LET uses == SelectSeq(Parsed, IsToolUse)
       IN  /\ pc # "error"
           /\ result.err = ""
           /\ Len(toolCalls) = Len(uses)
           /\ \A k \in 1..Len(uses) :
                 /\ toolCalls[k].ID = uses[k].ToolUseId
                 /\ toolCalls[k].Name = uses[k].Name
                 /\ toolCalls[k].Arguments =
                       IF DecodeFails(uses[k].Input) THEN {} ELSE ArgumentsOf(uses[k].Input)
           /\ content = Join(DropLeadingEmpty(TextsOf(SelectSeq(Parsed, IsText))))
           /\ pc = "done" => result.ToolCalls = toolCalls /\ result.Content = content

\* A ToolUse block whose input fails to decode, then a text, then a ToolUse
\* block whose input decodes.
C6_Witness ==
    /\ pc = "done"
    /\ response.Content =
          <<ToolUse("t3", "lookup", WireDocument(ArrayJson)), Text("a"),
            ToolUse("t1", "lookup", NewLazyDocument({<<"x", 1>>}))>>
    /\ result.err = ""
    /\ result.Content = "a"
    /\ result.ToolCalls =
          <<ToolCall("t3", "lookup", {}, NilFunction),
            ToolCall("t1", "lookup", {<<"x", 1>>}, NilFunction)>>

\* C7: the finish reason is one of stop, tool_calls and length: tool_calls
\* for the tool-use stop reason, length for the max-tokens one, and stop for
\* the end-of-turn one and for every other one, the empty one included.
C7_FinishReasonTotal ==
    (pc = "done") =>
       /\ result.FinishReason \in {"stop", "tool_calls", "length"}
       /\ response.StopReason = "tool_use" => result.FinishReason = "tool_calls"
       /\ response.StopReason = "max_tokens" => result.FinishReason = "length"
       /\ response.StopReason \notin {"tool_use", "max_tokens"} => result.FinishReason = "stop"

\* A stop reason the switch has no case for.
C7_Witness ==
    /\ pc = "done"
    /\ response.StopReason = "content_filtered"
    /\ result.FinishReason = "stop"

\* C10: the content is the Text values joined by single newlines, whatever
\* the values are.
C10_JoinedByNewlines ==
    (pc = "done") => result.Content = Join(TextsOf(response.Content))

\* C10 as amended: a Text value is preceded by a newline exactly when the
\* text decoded before it is not empty, so the content is the Text values
\* from the first non-empty one on, joined by single newlines.
C10_JoinedAfterFirstText ==
    /\ content = Join(DropLeadingEmpty(TextsOf(Parsed)))
    /\ (pc = "done") => result.Content = Join(DropLeadingEmpty(TextsOf(response.Content)))

\* An empty Text value first, then two others.
C10_Witness ==
    /\ pc = "done"
    /\ response.Content = <<Text(""), Text("a"), Text("b")>>
    /\ result.Content = "a\nb"

====
